---- MODULE Spec2Model ----
(***************************************************************************)
(* route66: the route table and matching engine of src/mod.ts (Router,     *)
(* RouterItem, RouterContext), its request helpers (paramsToObject, the    *)
(* get* and readBodyAs* accessors, bodyJSON) and the older dispatcher of   *)
(* src/unnamed/part_001, which calls its handlers without awaiting them.   *)
(*                                                                         *)
(* Strings are sequences of one-character strings, so that split, indexOf, *)
(* slice, join and toUpperCase are computed character by character.        *)
(***************************************************************************)
EXTENDS Integers, Sequences, FiniteSets, TLC

\* routes, thrown: the table of the Router and what the last register call
\* threw.  call[c]: one invocation of process.  req[c]: the ServerRequest
\* handed to invocation c, with the properties the helpers hang on it.
\* props[c]: the props object handed to invocation c.
VARIABLES routes, thrown, call, req, props

vars == <<routes, thrown, call, req, props>>

(* ------------------------------------------------------------------ *)
(* String primitives of the JavaScript runtime used by the router.     *)
(* ------------------------------------------------------------------ *)

Max(a, b) == IF a >= b THEN a ELSE b

\* String.prototype.includes(ch) for a one-character needle.
Includes(s, ch) == \E i \in 1..Len(s) : s[i] = ch

\* String.prototype.indexOf(ch): 0-based index of the first occurrence, or -1.
IndexOf(s, ch) ==
    IF Includes(s, ch)
    THEN (CHOOSE i \in 1..Len(s) : s[i] = ch /\ \A j \in 1..(i - 1) : s[j] # ch) - 1
    ELSE -1

\* String.prototype.lastIndexOf(ch): 0-based index of the last occurrence, or -1.
LastIndexOf(s, ch) ==
    IF Includes(s, ch)
    THEN (CHOOSE i \in 1..Len(s) : s[i] = ch /\ \A j \in (i + 1)..Len(s) : s[j] # ch) - 1
    ELSE -1

\* String.prototype.split(sep) for a one-character separator: every piece
\* between separators, the empty ones included ("".split('/') is [""]).
RECURSIVE SplitFrom(_, _, _, _)
SplitFrom(s, sep, i, piece) ==
    IF i > Len(s) THEN <<piece>>
    ELSE IF s[i] = sep THEN <<piece>> \o SplitFrom(s, sep, i + 1, <<>>)
    ELSE SplitFrom(s, sep, i + 1, Append(piece, s[i]))

Split(s, sep) == SplitFrom(s, sep, 1, <<>>)

\* .filter(i => !!i): the empty string is the only falsy string.
FilterTruthy(pieces) == SelectSeq(pieces, LAMBDA p : p # <<>>)

\* Array.prototype.slice(i) with a 0-based start index.
Slice(arr, i) == SubSeq(arr, i + 1, Len(arr))

\* Array.prototype.join(sep): the elements with sep between neighbours.
RECURSIVE Join(_, _)
Join(arr, sep) ==
    IF Len(arr) = 0 THEN <<>>
    ELSE IF Len(arr) = 1 THEN arr[1]
    ELSE arr[1] \o <<sep>> \o Join(Tail(arr), sep)

LowerLetters ==
    <<"a", "b", "c", "d", "e", "f", "g", "h", "i", "j", "k", "l", "m",
      "n", "o", "p", "q", "r", "s", "t", "u", "v", "w", "x", "y", "z">>

UpperLetters ==
    <<"A", "B", "C", "D", "E", "F", "G", "H", "I", "J", "K", "L", "M",
      "N", "O", "P", "Q", "R", "S", "T", "U", "V", "W", "X", "Y", "Z">>

\* String.prototype.toUpperCase on ASCII text.
ToUpperCase(s) ==
    [i \in 1..Len(s) |->
        IF \E k \in 1..Len(LowerLetters) : LowerLetters[k] = s[i]
        THEN UpperLetters[CHOOSE k \in 1..Len(LowerLetters) : LowerLetters[k] = s[i]]
        ELSE s[i]]

\* new URL(url, 'http://whatever').pathname for a request target made of
\* letters, '/', '?' and '#' that does not begin with "//" (which would name
\* a host): the text before the first '?' or '#', with a leading '/' (an
\* empty path is "/").  Inner and trailing slashes are kept as they are.
Pathname(url) ==
    LET cut == IF \E i \in 1..Len(url) : url[i] \in {"?", "#"}
               THEN (CHOOSE i \in 1..Len(url) :
                        /\ url[i] \in {"?", "#"}
                        /\ \A j \in 1..(i - 1) : url[j] \notin {"?", "#"}) - 1
               ELSE Len(url)
        path == SubSeq(url, 1, cut)
    IN  IF Len(path) > 0 /\ path[1] = "/" THEN path ELSE <<"/">> \o path

(* ------------------------------------------------------------------ *)
(* RouterMethod and the texts used as inputs.                          *)
(* ------------------------------------------------------------------ *)

M_GET     == <<"G", "E", "T">>
M_POST    == <<"P", "O", "S", "T">>
M_PATCH   == <<"P", "A", "T", "C", "H">>
M_DELETE  == <<"D", "E", "L", "E", "T", "E">>
M_OPTIONS == <<"O", "P", "T", "I", "O", "N", "S">>

RouterMethod == {M_GET, M_POST, M_PATCH, M_DELETE, M_OPTIONS}

STAR == <<"*">>

W_users  == <<"u", "s", "e", "r", "s">>
W_active == <<"a", "c", "t", "i", "v", "e">>
W_files  == <<"f", "i", "l", "e", "s">>
W_id     == <<"i", "d">>
W_name   == <<"n", "a", "m", "e">>
W_a      == <<"a">>
W_b      == <<"b">>
W_c      == <<"c">>
SL       == <<"/">>

P_empty        == <<>>                                   \* ""
P_users        == SL \o W_users                          \* "/users"
P_users_id     == SL \o W_users \o SL \o <<":">> \o W_id \* "/users/:id"
P_users_active == SL \o W_users \o SL \o W_active        \* "/users/active"
P_files_star   == SL \o W_files \o SL \o STAR            \* "/files/*"
P_files_name   == SL \o W_files \o SL \o <<":">> \o W_name \* "/files/:name"
P_namedstar    == SL \o <<":", "x", "*">>                \* "/:x*"
P_twostars     == SL \o STAR \o SL \o STAR               \* "/*/*"
P_badcolon     == SL \o <<"a", ":", "b">>                \* "/a:b"
P_badstar      == SL \o <<"a", "*">>                     \* "/a*"
P_star         == SL \o STAR                             \* "/*"
P_files        == SL \o W_files                          \* "/files"
P_users_id_star == P_users_id \o SL \o STAR              \* "/users/:id/*"
P_a_star_b     == SL \o W_a \o SL \o STAR \o SL \o W_b    \* "/a/*/b"
P_slashes      == SL \o SL \o W_files \o SL \o SL \o <<":">> \o W_name \o SL \* "//files//:name/"

(* ------------------------------------------------------------------ *)
(* class RouterItem                                                    *)
(* ------------------------------------------------------------------ *)

\* The loop of the constructor over the non-empty pieces of the pattern:
\* the parts pushed so far, or "throw" at the first malformed piece.
RECURSIVE PushParts(_, _, _)
PushParts(pieces, i, parts) ==
    IF i > Len(pieces) THEN [thrown |-> FALSE, parts |-> parts]
    ELSE LET part == pieces[i] IN
         IF Includes(part, ":")
         THEN IF IndexOf(part, ":") = 0 /\ LastIndexOf(part, ":") = 0
              THEN PushParts(pieces, i + 1,
                             Append(parts, [name |-> Slice(part, 1), param |-> TRUE]))
              ELSE [thrown |-> TRUE, parts |-> <<>>]
         ELSE IF Includes(part, "*")
         THEN IF Len(part) = 1
              THEN PushParts(pieces, i + 1,
                             Append(parts, [name |-> STAR, param |-> TRUE]))
              ELSE [thrown |-> TRUE, parts |-> <<>>]
         ELSE PushParts(pieces, i + 1,
                        Append(parts, [name |-> part, param |-> FALSE]))

\* this._variadic = pattern.includes('*')
Variadic(pattern) == Includes(pattern, "*")

\* new RouterItem(method, pattern, head, ...tail): the item, or the Error thrown.
RouterItem(method, pattern, handlers) ==
    IF Len(pattern) = 0
    THEN [thrown |-> TRUE, error |-> "pattern length must be greater than 0"]
    ELSE IF IndexOf(pattern, "*") # LastIndexOf(pattern, "*")
    THEN [thrown |-> TRUE, error |-> "wrong pattern"]
    ELSE LET pushed == PushParts(FilterTruthy(Split(pattern, "/")), 1, <<>>) IN
         IF pushed.thrown
         THEN [thrown |-> TRUE, error |-> "wrong pattern"]
         ELSE [thrown |-> FALSE,
               item |-> [method   |-> method,
                         pattern  |-> pattern,
                         handlers |-> handlers,
                         variadic |-> Variadic(pattern),
                         parts    |-> pushed.parts]]

\* The for loop of conflicts, from 1-based index i.
RECURSIVE ConflictsFrom(_, _, _)
ConflictsFrom(lparts, rparts, i) ==
    IF i > Max(Len(lparts), Len(rparts)) THEN TRUE
    ELSE IF i > Len(lparts) \/ i > Len(rparts) THEN FALSE
    ELSE IF lparts[i].name = STAR \/ rparts[i].name = STAR THEN TRUE
    ELSE IF lparts[i].param \/ rparts[i].param THEN ConflictsFrom(lparts, rparts, i + 1)
    ELSE IF lparts[i].name # rparts[i].name THEN FALSE
    ELSE ConflictsFrom(lparts, rparts, i + 1)

\* conflicts without the rule that a parameter is compatible with anything:
\* two parts are compared by name whatever their kind.
RECURSIVE ConflictsByNameFrom(_, _, _)
ConflictsByNameFrom(lparts, rparts, i) ==
    IF i > Max(Len(lparts), Len(rparts)) THEN TRUE
    ELSE IF i > Len(lparts) \/ i > Len(rparts) THEN FALSE
    ELSE IF lparts[i].name = STAR \/ rparts[i].name = STAR THEN TRUE
    ELSE IF lparts[i].name # rparts[i].name THEN FALSE
    ELSE ConflictsByNameFrom(lparts, rparts, i + 1)

conflictsByName(this, item) ==
    IF this.method # item.method THEN FALSE
    ELSE ConflictsByNameFrom(this.parts, item.parts, 1)

\* conflicts looking for the wildcard on the side of its argument only.
RECURSIVE ConflictsOneSidedFrom(_, _, _)
ConflictsOneSidedFrom(lparts, rparts, i) ==
    IF i > Max(Len(lparts), Len(rparts)) THEN TRUE
    ELSE IF i > Len(lparts) \/ i > Len(rparts) THEN FALSE
    ELSE IF rparts[i].name = STAR THEN TRUE
    ELSE IF lparts[i].param \/ rparts[i].param THEN ConflictsOneSidedFrom(lparts, rparts, i + 1)
    ELSE IF lparts[i].name # rparts[i].name THEN FALSE
    ELSE ConflictsOneSidedFrom(lparts, rparts, i + 1)

conflictsOneSided(this, item) ==
    IF this.method # item.method THEN FALSE
    ELSE ConflictsOneSidedFrom(this.parts, item.parts, 1)

\* this.conflicts(item)
conflicts(this, item) ==
    IF this.method # item.method THEN FALSE
    ELSE ConflictsFrom(this.parts, item.parts, 1)

NoParams == [k \in {} |-> <<>>]

\* The for loop of matches, from 1-based index i, with the params bound so far.
RECURSIVE MatchesFrom(_, _, _, _)
MatchesFrom(this, parts, i, params) ==
    IF i > Len(this.parts) THEN [matches |-> TRUE, params |-> params]
    ELSE LET lpart == this.parts[i] IN
         IF lpart.param
         THEN IF lpart.name = STAR
              THEN MatchesFrom(this, parts, i + 1,
                               (lpart.name :> Join(Slice(parts, i - 1), "/")) @@ params)
              ELSE MatchesFrom(this, parts, i + 1, (lpart.name :> parts[i]) @@ params)
         ELSE IF lpart.name # parts[i]
              THEN [matches |-> FALSE, params |-> NoParams]
              ELSE MatchesFrom(this, parts, i + 1, params)

\* matches with the length rule of a variadic item off by one (< for <=).
matchesLonger(this, method, parts) ==
    IF ToUpperCase(method) = this.method
    THEN IF \/ (Len(this.parts) = Len(parts) /\ ~this.variadic)
            \/ (Len(this.parts) < Len(parts) /\ this.variadic)
         THEN MatchesFrom(this, parts, 1, NoParams)
         ELSE [matches |-> FALSE, params |-> NoParams]
    ELSE [matches |-> FALSE, params |-> NoParams]

\* this.matches(method, parts)
matches(this, method, parts) ==
    IF ToUpperCase(method) = this.method
    THEN IF \/ (Len(this.parts) = Len(parts) /\ ~this.variadic)
            \/ (Len(this.parts) <= Len(parts) /\ this.variadic)
         THEN MatchesFrom(this, parts, 1, NoParams)
         ELSE [matches |-> FALSE, params |-> NoParams]
    ELSE [matches |-> FALSE, params |-> NoParams]

(* ------------------------------------------------------------------ *)
(* class Router: registration                                          *)
(* ------------------------------------------------------------------ *)

NoError == [kind |-> "none"]

\* _add pushing the item before the conflict loop instead of after it.
AddResultPushFirst(table, method, pattern, handlers) ==
    LET made == RouterItem(method, pattern, handlers) IN
    IF made.thrown
    THEN [routes |-> table,
          thrown |-> [kind |-> "malformed", pattern |-> pattern]]
    ELSE IF \E i \in 1..Len(table) : conflicts(made.item, table[i])
    THEN LET first == CHOOSE i \in 1..Len(table) :
                         /\ conflicts(made.item, table[i])
                         /\ \A j \in 1..(i - 1) : ~conflicts(made.item, table[j])
         IN  [routes |-> Append(table, made.item),
              thrown |-> [kind |-> "conflict", pattern |-> pattern,
                          with |-> table[first].pattern]]
    ELSE [routes |-> Append(table, made.item), thrown |-> NoError]

\* Router._add as a function of the table: the table after the call and
\* the Error the call throws (kind "none" when it returns).
AddResult(table, method, pattern, handlers) ==
    LET made == RouterItem(method, pattern, handlers) IN
    IF made.thrown
    THEN [routes |-> table,
          thrown |-> [kind |-> "malformed", pattern |-> pattern]]
    ELSE IF \E i \in 1..Len(table) : conflicts(made.item, table[i])
    THEN LET first == CHOOSE i \in 1..Len(table) :
                         /\ conflicts(made.item, table[i])
                         /\ \A j \in 1..(i - 1) : ~conflicts(made.item, table[j])
         IN  [routes |-> table,
              thrown |-> [kind |-> "conflict", pattern |-> pattern,
                          with |-> table[first].pattern]]
    ELSE [routes |-> Append(table, made.item), thrown |-> NoError]

_add(method, pattern, handlers) ==
    LET r == AddResult(routes, method, pattern, handlers) IN
    /\ routes' = r.routes
    /\ thrown' = r.thrown
    /\ UNCHANGED <<call, req, props>>

GET(pattern, handlers)     == _add(M_GET, pattern, handlers)
POST(pattern, handlers)    == _add(M_POST, pattern, handlers)
PATCH(pattern, handlers)   == _add(M_PATCH, pattern, handlers)
DELETE(pattern, handlers)  == _add(M_DELETE, pattern, handlers)
OPTIONS(pattern, handlers) == _add(M_OPTIONS, pattern, handlers)

(* ------------------------------------------------------------------ *)
(* class Router: process                                               *)
(*                                                                     *)
(* call[c] is one invocation of process.  A handler runs in segments:  *)
(* the synchronous one inside the call handler(context, cb), then one  *)
(* per resumption after a suspension.  A segment may invoke the        *)
(* continuation and ends by returning, throwing synchronously,         *)
(* rejecting the handler's promise, or suspending.                     *)
(* ------------------------------------------------------------------ *)

CallIds == {1, 2}

SyncEnds  == {"return", "throw", "reject", "suspend"}
AsyncEnds == {"return", "reject", "suspend"}

\* What the expression handler(context, cb) evaluates to.
PromiseOf(end) ==
    CASE end = "return"  -> "fulfilled"
      [] end = "reject"  -> "rejected"
      [] end = "suspend" -> "pending"
      [] end = "throw"   -> "threw"

NoContext == [id |-> <<0, 0>>, params |-> NoParams]

\* pc: "idle" (never called), "await" (suspended at the await of the handler
\* call), "returned", "rejected".  next[i] is the local `next` of the i-th
\* iteration of the handler loop, promise[i] the state of what the i-th
\* handler call returned.  log, signalled, settledSignal, completed and
\* overlap record what happened and are never read by the router.
IdleCall ==
    [pc |-> "idle", method |-> <<>>, url |-> <<>>, route |-> 0,
     context |-> NoContext, pos |-> 0, next |-> <<>>, promise |-> <<>>,
     result |-> "none",
     log |-> <<>>, signalled |-> <<>>, settledSignal |-> <<>>,
     completed |-> <<>>, overlap |-> FALSE]

\* const parts = urlobj.pathname.split('/').filter(i => !!i)
PathParts(url) == FilterTruthy(Split(Pathname(url), "/"))

\* The scan without its return: the last matching route wins.
RECURSIVE ScanLast(_, _, _, _)
ScanLast(table, method, parts, i) ==
    IF i > Len(table) THEN 0
    ELSE LET later == ScanLast(table, method, parts, i + 1) IN
         IF later # 0 THEN later
         ELSE IF matches(table[i], method, parts).matches THEN i
         ELSE 0

\* for (const route of this._routes) { if (route.matches(...).matches) ... }:
\* the index of the route the loop stops at, 0 when it runs to the end.
RECURSIVE Scan(_, _, _, _)
Scan(table, method, parts, i) ==
    IF i > Len(table) THEN 0
    ELSE IF matches(table[i], method, parts).matches THEN i
    ELSE Scan(table, method, parts, i + 1)

\* const context = new RouterContext(req, props, res.params), once per call.
NewContext(c, params) == [id |-> <<c, 1>>, params |-> params]

\* The context handed to the i-th handler: the one const of the call.
ContextFor(st, i) == st.context

\* The loop without its break.
ProceedsAlways(st, i) == TRUE

\* The flag kept on the router instead of in the loop: every invocation
\* sees what the i-th handler of any invocation signalled.
ProceedsAnyCall(st, i) ==
    \E c \in CallIds : i <= Len(call[c].next) /\ call[c].next[i]

\* if (!next) break: whether the loop goes on after the i-th handler.
Proceeds(st, i) == st.next[i]

\* handler(context, () => { next = true; }) for the i-th handler of the
\* matched route, whose synchronous segment invokes the continuation iff
\* `calls` and ends with `end`.
InvokeHandler(st, i, calls, end) ==
    [st EXCEPT
        !.pos = i,
        !.next = Append(@, calls),
        !.promise = Append(@, PromiseOf(end)),
        !.log = Append(@, [route   |-> st.route,
                           handler |-> routes[st.route].handlers[i],
                           context |-> ContextFor(st, i).id]),
        !.signalled = Append(@, calls),
        !.settledSignal = Append(@, calls),
        !.completed = Append(@, "pending"),
        !.overlap = @ \/ \E j \in 1..Len(st.promise) : st.promise[j] = "pending"]

\* The state of a call when process starts: the table scanned, and the
\* context built when a route matched.
Entered(c, method, url) ==
    LET parts == PathParts(url)
        r     == Scan(routes, method, parts, 1)
    IN  IF r = 0
        THEN [IdleCall EXCEPT !.method = method, !.url = url,
                              !.pc = "returned", !.result = FALSE]
        ELSE [IdleCall EXCEPT !.method = method, !.url = url, !.route = r,
                              !.context = NewContext(c, matches(routes[r], method, parts).params)]

\* await handler(...): a synchronous throw leaves process at once; otherwise
\* process is suspended until the promise settles.
Awaiting(st) ==
    IF st.promise[st.pos] = "threw"
    THEN [st EXCEPT !.pc = "rejected", !.completed[st.pos] = "failed"]
    ELSE [st EXCEPT !.pc = "await"]

Finished(c) == call[c].pc \in {"idle", "returned", "rejected"}

\* process(req, props) of src/mod.ts up to its first suspension.
process(c, method, url, calls, end) ==
    /\ Finished(c)
    /\ LET st == Entered(c, method, url) IN
       call' = [call EXCEPT ![c] =
                   IF st.pc = "returned" THEN st
                   ELSE Awaiting(InvokeHandler(st, 1, calls, end))]
    /\ UNCHANGED <<routes, thrown, req, props>>

\* return next: false when the chain stopped before its end.
HandledIfCompleted(st) == st.next[st.pos]

\* return true (line 216): the value process returns once a route matched.
Handled(st) == TRUE

\* The handler call wrapped in try/catch: a rejection is swallowed and the
\* flag decides as after a normal return.
ResumedSwallow(st, calls, end) ==
    LET i    == st.pos
        done == [st EXCEPT !.completed[i] =
                    IF st.promise[i] = "rejected" THEN "failed" ELSE "ok"]
    IN  IF ~st.next[i]
        THEN [done EXCEPT !.pc = "returned", !.result = TRUE]
        ELSE IF i < Len(routes[st.route].handlers)
        THEN Awaiting(InvokeHandler(done, i + 1, calls, end))
        ELSE [done EXCEPT !.pc = "returned", !.result = TRUE]

\* The loop without its exit at the end of the chain: after the last
\* handler process stays where it is.
ResumedNoEnd(st, calls, end) ==
    LET i == st.pos IN
    IF st.promise[i] = "rejected"
    THEN [st EXCEPT !.pc = "rejected", !.completed[i] = "failed"]
    ELSE LET done == [st EXCEPT !.completed[i] = "ok"] IN
         IF ~st.next[i]
         THEN [done EXCEPT !.pc = "returned", !.result = TRUE]
         ELSE IF i < Len(routes[st.route].handlers)
         THEN Awaiting(InvokeHandler(done, i + 1, calls, end))
         ELSE done

\* process after the awaited handler call settled: the rejection is
\* rethrown, or the loop breaks, goes on with the next handler, or ends.
Resumed(st, calls, end) ==
    LET i == st.pos IN
    IF st.promise[i] = "rejected"
    THEN [st EXCEPT !.pc = "rejected", !.completed[i] = "failed"]
    ELSE LET done == [st EXCEPT !.completed[i] = "ok"] IN
         IF ~Proceeds(done, i)
         THEN [done EXCEPT !.pc = "returned", !.result = Handled(done)]
         ELSE IF i < Len(routes[st.route].handlers)
         THEN Awaiting(InvokeHandler(done, i + 1, calls, end))
         ELSE [done EXCEPT !.pc = "returned", !.result = Handled(done)]

ProcessResume(c, calls, end) ==
    /\ call[c].pc = "await"
    /\ call[c].promise[call[c].pos] \in {"fulfilled", "rejected"}
    /\ call' = [call EXCEPT ![c] = Resumed(call[c], calls, end)]
    /\ UNCHANGED <<routes, thrown, req, props>>

\* The continuation of the i-th iteration is invoked: next = true.
Signal(st, i) ==
    [st EXCEPT
        !.next[i] = TRUE,
        !.signalled[i] = @ \/ st.completed[i] = "pending",
        !.settledSignal[i] = @ \/ st.promise[i] = "pending"]

\* A suspended handler is resumed and runs its next segment.
HandlerResume(c, i, calls, end) ==
    /\ i \in 1..Len(call[c].promise)
    /\ call[c].promise[i] = "pending"
    /\ LET st == IF calls THEN Signal(call[c], i) ELSE call[c] IN
       call' = [call EXCEPT ![c] = [st EXCEPT !.promise[i] = PromiseOf(end)]]
    /\ UNCHANGED <<routes, thrown, req, props>>

\* A handler whose call has settled invokes its continuation later, from a
\* callback it left behind (a microtask or a timer).
LateNext(c, i) ==
    /\ i \in 1..Len(call[c].promise)
    /\ call[c].promise[i] \in {"fulfilled", "rejected"}
    /\ ~call[c].next[i]
    /\ call' = [call EXCEPT ![c] = Signal(call[c], i)]
    /\ UNCHANGED <<routes, thrown, req, props>>

\* The handler loop of src/unnamed/part_001, which does not await: handler
\* i is called, and the flag is read as soon as the call expression returns.
RECURSIVE LoopNoAwait(_, _, _)
LoopNoAwait(st, i, segs) ==
    LET inv == InvokeHandler(st, i, segs[i].calls, segs[i].end) IN
    IF segs[i].end = "throw"
    THEN [inv EXCEPT !.pc = "rejected", !.completed[i] = "failed"]
    ELSE LET done == [inv EXCEPT !.completed[i] = "ok"] IN
         IF ~Proceeds(done, i)
         THEN [done EXCEPT !.pc = "returned", !.result = Handled(done)]
         ELSE IF i < Len(routes[st.route].handlers)
         THEN LoopNoAwait(done, i + 1, segs)
         ELSE [done EXCEPT !.pc = "returned", !.result = Handled(done)]

\* process(request, props) of src/unnamed/part_001: the whole body runs
\* without suspending; segs[i] is the synchronous segment of handler i.
processNoAwait(c, method, url, segs) ==
    /\ Finished(c)
    /\ LET st == Entered(c, method, url) IN
       call' = [call EXCEPT ![c] =
                   IF st.pc = "returned" THEN st ELSE LoopNoAwait(st, 1, segs)]
    /\ UNCHANGED <<routes, thrown, req, props>>

(* ------------------------------------------------------------------ *)
(* Request helpers: the URL, paramsToObject, JSON.parse and            *)
(* decodeURIComponent.  Texts are over letters, the digits 1 2 6 and   *)
(* the marks / ? # = & % { } -.                                        *)
(* ------------------------------------------------------------------ *)

\* String.prototype.toLowerCase on ASCII text.
ToLowerCase(s) ==
    [i \in 1..Len(s) |->
        IF \E k \in 1..Len(UpperLetters) : UpperLetters[k] = s[i]
        THEN LowerLetters[CHOOSE k \in 1..Len(UpperLetters) : UpperLetters[k] = s[i]]
        ELSE s[i]]

\* 1-based index of the first character of s that is in marks, or Len(s) + 1.
FirstOf(s, marks) ==
    IF \E i \in 1..Len(s) : s[i] \in marks
    THEN CHOOSE i \in 1..Len(s) : s[i] \in marks /\ \A j \in 1..(i - 1) : s[j] \notin marks
    ELSE Len(s) + 1

\* new URL(url, 'http://whatever').search: the query with its '?', up to the
\* fragment; the empty string when the query is missing or empty.
Search(url) ==
    LET h == FirstOf(url, {"#"})
        q == FirstOf(url, {"?", "#"})
    IN  IF q < h /\ q + 1 < h THEN SubSeq(url, q, h - 1) ELSE <<>>

\* new URL(url, 'http://whatever').hash: the fragment with its '#'; the empty
\* string when the fragment is missing or empty.
Hash(url) ==
    LET h == FirstOf(url, {"#"})
    IN  IF h < Len(url) THEN SubSeq(url, h, Len(url)) ELSE <<>>

\* new URL(req.url, 'http://whatever')
ParseURL(url) == [pathname |-> Pathname(url), search |-> Search(url), hash |-> Hash(url)]

\* String.prototype.replace(ch, ''): the text without its first ch.
ReplaceFirst(s, ch) ==
    LET i == FirstOf(s, {ch})
    IN  IF i > Len(s) THEN s ELSE SubSeq(s, 1, i - 1) \o SubSeq(s, i + 1, Len(s))

\* JavaScript values: strings, undefined, numbers and plain objects (a plain
\* object is its mapping from keys to values).
JsString(text) == [type |-> "string", text |-> text, num |-> 0, map |-> <<>>]
JsUndefined    == [type |-> "undefined", text |-> <<>>, num |-> 0, map |-> <<>>]
JsNumber(n)    == [type |-> "number", text |-> <<>>, num |-> n, map |-> <<>>]
JsObject(map)  == [type |-> "object", text |-> <<>>, num |-> 0, map |-> map]

EmptyObject == [k \in {} |-> JsUndefined]

\* The forEach of paramsToObject over pairs[i..]: ret[key] = value, a later
\* pair overwriting an earlier one with the same key; value is undefined
\* when the pair has no '='.
RECURSIVE ParamsFrom(_, _, _)
ParamsFrom(pairs, i, ret) ==
    IF i > Len(pairs) THEN ret
    ELSE LET kv    == Split(pairs[i], "=")
             key   == kv[1]
             value == IF Len(kv) >= 2 THEN JsString(kv[2]) ELSE JsUndefined
         IN  ParamsFrom(pairs, i + 1, (key :> value) @@ ret)

\* paramsToObject(params, sep)
paramsToObject(params, sep) == ParamsFrom(Split(params, sep), 1, EmptyObject)

Digits == <<"1", "2", "3", "4", "5", "6", "7", "8", "9">>

IsDigit(ch) == \E d \in 1..Len(Digits) : Digits[d] = ch

DigitValue(ch) == CHOOSE d \in 1..Len(Digits) : Digits[d] = ch

RECURSIVE NumberValue(_, _, _)
NumberValue(text, i, acc) ==
    IF i > Len(text) THEN acc
    ELSE NumberValue(text, i + 1, 10 * acc + DigitValue(text[i]))

\* JSON.parse(text) for a text without blanks, quotes, brackets, '0', '.',
\* '-' or the letters of true, false and null: the JSON texts among those
\* are the numbers written with the digits 1..9 and the empty object {};
\* every other one is a SyntaxError.
JSONParse(text) ==
    IF Len(text) > 0 /\ \A i \in 1..Len(text) : IsDigit(text[i])
    THEN [thrown |-> FALSE, value |-> JsNumber(NumberValue(text, 1, 0))]
    ELSE IF text = <<"{", "}">>
    THEN [thrown |-> FALSE, value |-> JsObject(EmptyObject)]
    ELSE [thrown |-> TRUE, value |-> JsUndefined]

\* The escapes decodeURIComponent meets here: %26 is '&' and %61 is 'a'.
Escapes == (<<"2", "6">> :> "&") @@ (<<"6", "1">> :> "a")

\* decodeURIComponent(text) from index i, for a text in which every '%' is
\* followed by one of the escapes above or by no two hexadecimal digits
\* (which is a URIError).
RECURSIVE DecodeFrom(_, _, _)
DecodeFrom(text, i, out) ==
    IF i > Len(text) THEN [thrown |-> FALSE, text |-> out]
    ELSE IF text[i] # "%" THEN DecodeFrom(text, i + 1, Append(out, text[i]))
    ELSE IF i + 2 <= Len(text) /\ SubSeq(text, i + 1, i + 2) \in DOMAIN Escapes
    THEN DecodeFrom(text, i + 3, Append(out, Escapes[SubSeq(text, i + 1, i + 2)]))
    ELSE [thrown |-> TRUE, text |-> <<>>]

decodeURIComponent(text) == DecodeFrom(text, 1, <<>>)

(* ------------------------------------------------------------------ *)
(* The ServerRequest and the accessors that cache on it.               *)
(*                                                                     *)
(* req[c].has is the set of own properties the helpers have added      *)
(* (hasOwnProperty); stream is what of the body has not been read yet. *)
(* body, reads, computed, seen and responses record what was sent and  *)
(* what happened; the helpers never read them.  tasks are the calls of *)
(* the async helpers that have been started: each runs up to its next  *)
(* await in one step.                                                  *)
(* ------------------------------------------------------------------ *)

H_Cookie      == <<"C", "o", "o", "k", "i", "e">>
H_ContentType == <<"C", "o", "n", "t", "e", "n", "t", "-", "T", "y", "p", "e">>

CT_json == <<"a", "p", "p", "l", "i", "c", "a", "t", "i", "o", "n", "/", "j", "s", "o", "n">>
CT_form ==
    <<"a", "p", "p", "l", "i", "c", "a", "t", "i", "o", "n", "/", "x", "-", "w", "w", "w",
      "-", "f", "o", "r", "m", "-", "u", "r", "l", "e", "n", "c", "o", "d", "e", "d">>
CT_text == <<"t", "e", "x", "t", "/", "p", "l", "a", "i", "n">>

NoHeaders == [k \in {} |-> <<>>]

\* Headers.prototype.get(name): names are kept in lower case; null when absent.
HeadersGet(headers, name) ==
    IF ToLowerCase(name) \in DOMAIN headers
    THEN [present |-> TRUE, text |-> headers[ToLowerCase(name)]]
    ELSE [present |-> FALSE, text |-> <<>>]

NoURL == [pathname |-> <<>>, search |-> <<>>, hash |-> <<>>]

NoCounts ==
    [url |-> 0, path |-> 0, search |-> 0, hash |-> 0, cookie |-> 0, headers |-> 0,
     bodytext |-> 0, bodyjson |-> 0]

NoneSeen ==
    [path |-> {}, search |-> {}, hash |-> {}, cookie |-> {}, headers |-> {},
     bodytext |-> {}, bodyjson |-> {}]

NoRequest ==
    [live |-> FALSE, method |-> <<>>, url |-> <<>>, headers |-> NoHeaders,
     body |-> <<>>, stream |-> <<>>, streamFails |-> FALSE,
     has |-> {}, __url |-> NoURL, __path |-> <<>>, __search |-> EmptyObject,
     __hash |-> EmptyObject, __cookie |-> EmptyObject, __headers |-> EmptyObject,
     __bodytext |-> <<>>, __bodyjson |-> JsUndefined,
     tasks |-> <<>>, reads |-> 0, computed |-> NoCounts, seen |-> NoneSeen,
     responses |-> <<>>]

\* The request the host hands to the application: nothing cached on it yet.
NewRequest(method, url, headers, body, fails) ==
    [NoRequest EXCEPT !.live = TRUE, !.method = method, !.url = url,
                      !.headers = headers, !.body = body, !.stream = body,
                      !.streamFails = fails]

\* if (!__req.hasOwnProperty('__url')) __req.__url = new URL(req.url, ...)
WithURL(r) ==
    IF "__url" \in r.has THEN r
    ELSE [r EXCEPT !.has = @ \cup {"__url"}, !.__url = ParseURL(r.url),
                   !.computed.url = @ + 1]

getPathOf(r) ==
    IF "__path" \in r.has
    THEN [r EXCEPT !.seen.path = @ \cup {r.__path}]
    ELSE LET u == WithURL(r) IN
         [u EXCEPT !.has = @ \cup {"__path"}, !.__path = u.__url.pathname,
                   !.computed.path = @ + 1, !.seen.path = @ \cup {u.__url.pathname}]

getSearchOf(r) ==
    IF "__search" \in r.has
    THEN [r EXCEPT !.seen.search = @ \cup {r.__search}]
    ELSE LET u == WithURL(r)
             v == paramsToObject(ReplaceFirst(u.__url.search, "?"), "&")
         IN  [u EXCEPT !.has = @ \cup {"__search"}, !.__search = v,
                       !.computed.search = @ + 1, !.seen.search = @ \cup {v}]

getHashOf(r) ==
    IF "__hash" \in r.has
    THEN [r EXCEPT !.seen.hash = @ \cup {r.__hash}]
    ELSE LET u == WithURL(r)
             v == paramsToObject(ReplaceFirst(u.__url.hash, "#"), "&")
         IN  [u EXCEPT !.has = @ \cup {"__hash"}, !.__hash = v,
                       !.computed.hash = @ + 1, !.seen.hash = @ \cup {v}]

getCookieOf(r) ==
    IF "__cookie" \in r.has
    THEN [r EXCEPT !.seen.cookie = @ \cup {r.__cookie}]
    ELSE LET got == HeadersGet(r.headers, H_Cookie)
             v   == paramsToObject(IF got.present THEN got.text ELSE <<>>, "&")
         IN  [r EXCEPT !.has = @ \cup {"__cookie"}, !.__cookie = v,
                       !.computed.cookie = @ + 1, !.seen.cookie = @ \cup {v}]

getHeadersOf(r) ==
    IF "__headers" \in r.has
    THEN [r EXCEPT !.seen.headers = @ \cup {r.__headers}]
    ELSE LET v == [k \in DOMAIN r.headers |-> JsString(r.headers[k])] IN
         [r EXCEPT !.has = @ \cup {"__headers"}, !.__headers = v,
                   !.computed.headers = @ + 1, !.seen.headers = @ \cup {v}]

\* A synchronous accessor called on request c.
Access(c, after) ==
    /\ req[c].live
    /\ req' = [req EXCEPT ![c] = after]
    /\ UNCHANGED <<routes, thrown, call, props>>

getPath(c)    == Access(c, getPathOf(req[c]))
getSearch(c)  == Access(c, getSearchOf(req[c]))
getHash(c)    == Access(c, getHashOf(req[c]))
getCookie(c)  == Access(c, getCookieOf(req[c]))
getHeaders(c) == Access(c, getHeadersOf(req[c]))

(* ------------------------------------------------------------------ *)
(* readBodyAsText, readBodyAsJSON and bodyJSON.                        *)
(*                                                                     *)
(* A task is one call of an async helper.  fn is "text", "json" or     *)
(* "bodyJSON" (the handler bodyJSON returns, with its readBodyAsJSON   *)
(* and readBodyAsText calls).  pc: "reading" (at await Deno.readAll),  *)
(* "gotText" (readBodyAsText has resolved, the caller not yet          *)
(* resumed), "gotJSON" and "failedJSON" (readBodyAsJSON has settled,   *)
(* bodyJSON not yet resumed), "resolved", "rejected", "done".          *)
(* ------------------------------------------------------------------ *)

\* The handler bodyJSON(key) returns, as an element of a handler chain.
H_bodyJSON == 0

\* The key handed to bodyJSON.
K_body == <<"b", "o", "d", "y">>

NewTask(fn, handler) ==
    [fn |-> fn, pc |-> "reading", buf |-> <<>>, text |-> <<>>,
     value |-> JsUndefined, error |-> "none", handler |-> handler]

\* The body of readBodyAsJSON after its await, for the text it was given.
DecodeBody(r, text) ==
    LET type == HeadersGet(r.headers, H_ContentType) IN
    IF type.present /\ type.text = CT_json
    THEN LET parsed == JSONParse(text) IN
         IF parsed.thrown
         THEN [error |-> "JSONParseError", value |-> JsUndefined]
         ELSE [error |-> "none", value |-> parsed.value]
    ELSE IF type.present /\ type.text = CT_form
    THEN LET decoded == decodeURIComponent(text) IN
         IF decoded.thrown
         THEN [error |-> "URIError", value |-> JsUndefined]
         ELSE [error |-> "none", value |-> JsObject(paramsToObject(decoded.text, "&"))]
    ELSE [error |-> "UnsupportedMediaTypeError", value |-> JsUndefined]

\* The call of an async helper up to its first await: the cached value is
\* returned when the property is there, else the body is read (Deno.readAll
\* is called) unless its text is cached.
StartTask(r, fn, handler) ==
    LET t == NewTask(fn, handler) IN
    IF fn # "text" /\ "__bodyjson" \in r.has
    THEN IF fn = "json"
         THEN [r EXCEPT !.tasks = Append(@, [t EXCEPT !.pc = "resolved",
                                                      !.value = r.__bodyjson]),
                        !.seen.bodyjson = @ \cup {r.__bodyjson}]
         ELSE [r EXCEPT !.tasks = Append(@, [t EXCEPT !.pc = "gotJSON",
                                                      !.value = r.__bodyjson])]
    ELSE IF "__bodytext" \in r.has
    THEN IF fn = "text"
         THEN [r EXCEPT !.tasks = Append(@, [t EXCEPT !.pc = "resolved",
                                                      !.text = r.__bodytext]),
                        !.seen.bodytext = @ \cup {r.__bodytext}]
         ELSE [r EXCEPT !.tasks = Append(@, [t EXCEPT !.pc = "gotText",
                                                      !.text = r.__bodytext])]
    ELSE [r EXCEPT !.tasks = Append(@, t), !.reads = @ + 1]

\* Deno.readAll of task k takes the next piece of the body off the stream.
ReadChunkOf(r, k) ==
    [r EXCEPT !.stream = Tail(@), !.tasks[k].buf = Append(@, Head(r.stream))]

\* Deno.readAll of task k meets the end of the stream: __bodytext is set to
\* what this call has read, and readBodyAsText returns it.
ReadEndOf(r, k) ==
    LET text == r.tasks[k].buf IN
    [r EXCEPT !.has = @ \cup {"__bodytext"}, !.__bodytext = text,
              !.computed.bodytext = @ + 1,
              !.tasks[k].text = text,
              !.tasks[k].pc = IF r.tasks[k].fn = "text" THEN "resolved" ELSE "gotText",
              !.seen.bodytext = IF r.tasks[k].fn = "text" THEN @ \cup {text} ELSE @]

\* Deno.readAll of task k rejects: the rejection passes through
\* readBodyAsText and readBodyAsJSON.
ReadFailOf(r, k) ==
    [r EXCEPT !.tasks[k].error = "ReadError",
              !.tasks[k].pc = IF r.tasks[k].fn = "bodyJSON" THEN "failedJSON" ELSE "rejected"]

\* readBodyAsJSON of task k goes on after await readBodyAsText(req).
DecodeOf(r, k) ==
    LET d == DecodeBody(r, r.tasks[k].text) IN
    IF d.error = "none"
    THEN [r EXCEPT !.has = @ \cup {"__bodyjson"}, !.__bodyjson = d.value,
                   !.computed.bodyjson = @ + 1,
                   !.tasks[k].value = d.value,
                   !.tasks[k].pc = IF r.tasks[k].fn = "json" THEN "resolved" ELSE "gotJSON",
                   !.seen.bodyjson = IF r.tasks[k].fn = "json" THEN @ \cup {d.value} ELSE @]
    ELSE [r EXCEPT !.tasks[k].error = d.error,
                   !.tasks[k].pc = IF r.tasks[k].fn = "json" THEN "rejected" ELSE "failedJSON"]

\* A handler (or anyone holding the request) calls an async helper, while
\* fewer than max calls have been started on the request.
CallHelper(c, fn, max) ==
    /\ req[c].live
    /\ Len(req[c].tasks) < max
    /\ req' = [req EXCEPT ![c] = StartTask(req[c], fn, 0)]
    /\ UNCHANGED <<routes, thrown, call, props>>

readBodyAsText(c, max) == CallHelper(c, "text", max)
readBodyAsJSON(c, max) == CallHelper(c, "json", max)

\* A task of request c is in state pc and takes the step `after`.
TaskStep(c, k, pc, after) ==
    /\ k \in 1..Len(req[c].tasks)
    /\ req[c].tasks[k].pc = pc
    /\ req' = [req EXCEPT ![c] = after]
    /\ UNCHANGED <<routes, thrown, call, props>>

ReadChunk(c, k) ==
    /\ req[c].stream # <<>>
    /\ TaskStep(c, k, "reading", ReadChunkOf(req[c], k))

ReadEnd(c, k) ==
    /\ req[c].stream = <<>>
    /\ ~req[c].streamFails
    /\ TaskStep(c, k, "reading", ReadEndOf(req[c], k))

ReadFail(c, k) ==
    /\ req[c].streamFails
    /\ TaskStep(c, k, "reading", ReadFailOf(req[c], k))

Decode(c, k) == TaskStep(c, k, "gotText", DecodeOf(req[c], k))

\* The status bodyJSON responds with in its catch block.
StatusOf(error) ==
    IF error = "UnsupportedMediaTypeError" THEN 415
    ELSE IF error = "JSONParseError" THEN 400
    ELSE 500

\* bodyJSON rethrowing what it caught instead of responding.
BodyJSONCaughtRethrow(st, i, error) == [st EXCEPT !.promise[i] = "rejected"]

\* The handler call of bodyJSON after its catch block: it returns.
BodyJSONCaught(st, i, error) == [st EXCEPT !.promise[i] = "fulfilled"]

\* bodyJSON after await readBodyAsJSON resolved:
\* context.props[key] = value; next(); and the handler returns.
BodyJSONStore(c, k) ==
    /\ k \in 1..Len(req[c].tasks)
    /\ req[c].tasks[k].pc = "gotJSON"
    /\ LET i == req[c].tasks[k].handler IN
       /\ props' = [props EXCEPT ![c] = (K_body :> req[c].tasks[k].value) @@ @]
       /\ call' = [call EXCEPT ![c] = [Signal(call[c], i) EXCEPT !.promise[i] = "fulfilled"]]
    /\ req' = [req EXCEPT ![c].tasks[k].pc = "done"]
    /\ UNCHANGED <<routes, thrown>>

\* bodyJSON after await readBodyAsJSON rejected: the catch block responds
\* with the status of the error, and the handler returns.
BodyJSONCatch(c, k) ==
    /\ k \in 1..Len(req[c].tasks)
    /\ req[c].tasks[k].pc = "failedJSON"
    /\ LET i == req[c].tasks[k].handler
           e == req[c].tasks[k].error
       IN  /\ call' = [call EXCEPT ![c] = BodyJSONCaught(call[c], i, e)]
           /\ req' = [req EXCEPT ![c].tasks[k].pc = "done",
                                 ![c].responses = Append(@, StatusOf(e))]
    /\ UNCHANGED <<routes, thrown, props>>

\* The synchronous segment of a handler: bodyJSON calls readBodyAsJSON and
\* suspends at its await; any other handler does what the environment picks.
SegmentOf(h, calls, end) ==
    IF h = H_bodyJSON THEN [calls |-> FALSE, end |-> "suspend"]
    ELSE [calls |-> calls, end |-> end]

\* The request after handler i of the matched route was called.
Called(c, st, i) ==
    IF routes[st.route].handlers[i] = H_bodyJSON
    THEN StartTask(req[c], "bodyJSON", i)
    ELSE req[c]

\* The host hands a request to the application.
Arrive(c, method, url, headers, body, fails) ==
    /\ ~req[c].live
    /\ req' = [req EXCEPT ![c] = NewRequest(method, url, headers, body, fails)]
    /\ UNCHANGED <<routes, thrown, call, props>>

\* router.process(req, props) for the request that arrived, up to its
\* first suspension.
Serve(c, calls, end) ==
    /\ req[c].live
    /\ call[c].pc = "idle"
    /\ LET st == Entered(c, req[c].method, req[c].url) IN
       IF st.pc = "returned"
       THEN /\ call' = [call EXCEPT ![c] = st]
            /\ UNCHANGED req
       ELSE LET seg == SegmentOf(routes[st.route].handlers[1], calls, end) IN
            /\ call' = [call EXCEPT ![c] = Awaiting(InvokeHandler(st, 1, seg.calls, seg.end))]
            /\ req' = [req EXCEPT ![c] = Called(c, st, 1)]
    /\ UNCHANGED <<routes, thrown, props>>

\* process goes on after the awaited handler call settled.
ServeResume(c, calls, end) ==
    /\ call[c].pc = "await"
    /\ call[c].promise[call[c].pos] \in {"fulfilled", "rejected"}
    /\ LET st   == call[c]
           last == st.pos = Len(routes[st.route].handlers)
           seg  == IF last THEN [calls |-> calls, end |-> end]
                   ELSE SegmentOf(routes[st.route].handlers[st.pos + 1], calls, end)
           new  == Resumed(st, seg.calls, seg.end)
       IN  /\ call' = [call EXCEPT ![c] = new]
           /\ req' = [req EXCEPT ![c] = IF new.pos > st.pos THEN Called(c, new, new.pos)
                                        ELSE req[c]]
    /\ UNCHANGED <<routes, thrown, props>>

\* A suspended handler other than bodyJSON is resumed.
OtherHandlerResume(c, i, calls, end) ==
    /\ i \in 1..Len(call[c].promise)
    /\ routes[call[c].route].handlers[i] # H_bodyJSON
    /\ HandlerResume(c, i, calls, end)

(* ------------------------------------------------------------------ *)
(* Inputs and specifications.                                          *)
(* ------------------------------------------------------------------ *)

MaxRoutes   == 2
MaxHandlers == 2
\* Helper calls started on one request: overlapping ones when only the
\* helpers run, and next to bodyJSON in a chain.
MaxReaders  == 2
MaxTasks    == 1

\* Handler chains [head, ...tail] of 1..MaxHandlers handlers; a handler is
\* named by its place in the chain it was registered with.
Chains == {[i \in 1..n |-> i] : n \in 1..MaxHandlers}
HeadOnly == {<<1>>}

Init ==
    /\ routes = <<>>
    /\ thrown = NoError
    /\ call = [c \in CallIds |-> IdleCall]
    /\ req = [c \in CallIds |-> NoRequest]
    /\ props = [c \in CallIds |-> EmptyObject]

\* Routes are registered at startup, before the first request is processed.
Building == \A c \in CallIds : call[c].pc = "idle"
CanRegister == Building /\ Len(routes) < MaxRoutes

R_GET      == <<"G", "E", "T">>
R_get      == <<"g", "e", "t">>
R_Post     == <<"P", "o", "s", "t">>
U_root     == SL                                  \* "/"
U_users    == SL \o W_users                       \* "/users"
U_users_a  == SL \o W_users \o SL \o W_a          \* "/users/a"
U_users_active == SL \o W_users \o SL \o W_active \* "/users/active"
U_files    == SL \o W_files                       \* "/files"
U_files_a  == SL \o W_files \o SL \o W_a          \* "/files/a"
U_files_abc == SL \o W_files \o SL \o W_a \o SL \o W_b \o SL \o W_c \* "/files/a/b/c"
U_files_a_slash == SL \o W_files \o SL \o SL \o W_a \o SL \o <<"?">> \o W_b \* "/files//a/?b"
U_users_a_b == SL \o W_users \o SL \o W_a \o SL \o W_b \* "/users/a/b"
U_a_b_c    == SL \o W_a \o SL \o W_b \o SL \o W_c    \* "/a/b/c"
U_a_c_b    == SL \o W_a \o SL \o W_c \o SL \o W_b    \* "/a/c/b"

(* The dispatcher of src/mod.ts. *)
DispatchPatterns == {P_namedstar, P_users_id}
DispatchMethods  == {R_GET, R_Post}
DispatchUrls     == {U_root, U_users_a}

Next ==
    \/ \E p \in DispatchPatterns, h \in Chains : CanRegister /\ GET(p, h)
    \/ \E p \in {P_users_id}, h \in HeadOnly : CanRegister /\ POST(p, h)
    \/ \E m \in DispatchMethods, u \in DispatchUrls, calls \in BOOLEAN, end \in SyncEnds :
          process(1, m, u, calls, end)
    \/ \E calls \in BOOLEAN, end \in SyncEnds : ProcessResume(1, calls, end)
    \/ \E i \in 1..MaxHandlers, calls \in BOOLEAN, end \in AsyncEnds :
          HandlerResume(1, i, calls, end)
    \/ \E i \in 1..MaxHandlers : LateNext(1, i)

Spec == Init /\ [][Next]_vars

\* The event loop runs the continuation of process once the promise it
\* awaits has settled.
SpecLive ==
    Spec /\ WF_vars(\E calls \in BOOLEAN, end \in SyncEnds : ProcessResume(1, calls, end))

(* The dispatcher of src/unnamed/part_001. *)
Segments == [calls : BOOLEAN, end : SyncEnds]

NextPart001 ==
    \/ \E p \in {P_users_id}, h \in Chains : CanRegister /\ GET(p, h)
    \/ \E m \in {R_GET}, u \in DispatchUrls, segs \in [1..MaxHandlers -> Segments] :
          processNoAwait(1, m, u, segs)
    \/ \E i \in 1..MaxHandlers, calls \in BOOLEAN, end \in AsyncEnds :
          HandlerResume(1, i, calls, end)
    \/ \E i \in 1..MaxHandlers : LateNext(1, i)

SpecPart001 == Init /\ [][NextPart001]_vars

(* Registration through the five methods of Router. *)
RoutePatterns ==
    {P_empty, P_twostars, P_badcolon, P_badstar, P_users, P_users_id,
     P_users_active, P_files, P_files_star, P_files_name, P_namedstar, P_star,
     P_slashes}
SharedPatterns == {P_users_id}
PostPatterns == SharedPatterns \cup {P_users_active}

NextRoutes ==
    \/ \E p \in RoutePatterns, h \in HeadOnly   : CanRegister /\ GET(p, h)
    \/ \E p \in PostPatterns, h \in HeadOnly    : CanRegister /\ POST(p, h)
    \/ \E p \in SharedPatterns, h \in HeadOnly  : CanRegister /\ PATCH(p, h)
    \/ \E p \in SharedPatterns, h \in HeadOnly  : CanRegister /\ DELETE(p, h)
    \/ \E p \in SharedPatterns, h \in HeadOnly  : CanRegister /\ OPTIONS(p, h)

SpecRoutes == Init /\ [][NextRoutes]_vars

(* One route, and requests matched against it. *)
MatchPatterns ==
    {P_users, P_users_id, P_users_active, P_files_star, P_files_name, P_namedstar,
     P_star, P_users_id_star, P_a_star_b}
MatchMethods == {R_GET, R_get, R_Post}
MatchUrls ==
    {U_root, U_users, U_users_a, U_users_active, U_users_a_b, U_files, U_files_a,
     U_files_abc, U_files_a_slash, U_a_b_c, U_a_c_b}

NextMatch ==
    \/ \E p \in MatchPatterns, h \in HeadOnly : routes = <<>> /\ Building /\ GET(p, h)
    \/ \E m \in MatchMethods, u \in MatchUrls, calls \in BOOLEAN, end \in {"return"} :
          routes # <<>> /\ process(1, m, u, calls, end)
    \/ \E calls \in BOOLEAN, end \in {"return"} : ProcessResume(1, calls, end)

SpecMatch == Init /\ [][NextMatch]_vars

(* The synchronous accessors called on two requests. *)
U_query      == SL \o W_users \o <<"?", "a", "=", "1", "&", "b", "=", "2">> \* "/users?a=1&b=2"
U_bare_query == SL \o W_users \o <<"?">>                                    \* "/users?"
U_query_hash == SL \o W_users \o <<"?", "a", "#", "b", "=", "1">>           \* "/users?a#b=1"

B_12     == <<"1", "2">>                                  \* "12"
B_object == <<"{", "}">>                                  \* "{}"
B_pair   == <<"a", "=", "1">>                             \* "a=1"
B_amp    == <<"a", "%", "2", "6", "b">>                   \* "a%26b"
B_badpct == <<"a", "%">>                                  \* "a%"
B_empty  == <<>>                                          \* ""

HeadersOf(cookie, type) ==
    (IF cookie.present THEN (ToLowerCase(H_Cookie) :> cookie.text) ELSE NoHeaders)
       @@ (IF type.present THEN (ToLowerCase(H_ContentType) :> type.text) ELSE NoHeaders)

Absent == [present |-> FALSE, text |-> <<>>]
Present(text) == [present |-> TRUE, text |-> text]

H_none == HeadersOf(Absent, Absent)
H_json == HeadersOf(Absent, Present(CT_json))
H_form == HeadersOf(Absent, Present(CT_form))
H_text == HeadersOf(Absent, Present(CT_text))

HelperUrls    == {U_users, U_query, U_bare_query, U_query_hash}
HelperHeaders == {HeadersOf(Absent, Present(CT_json)),
                  HeadersOf(Present(B_pair), Present(CT_json))}

NextHelpers ==
    \/ \E u \in HelperUrls, h \in HelperHeaders : Arrive(1, R_GET, u, h, B_empty, FALSE)
    \/ Arrive(2, R_GET, U_users, HeadersOf(Absent, Absent), B_empty, FALSE)
    \/ getPath(1)
    \/ \E c \in CallIds : getSearch(c)
    \/ getHash(1)
    \/ \E c \in CallIds : getCookie(c)
    \/ getHeaders(1)

SpecHelpers == Init /\ [][NextHelpers]_vars

(* The body of request 1 read by calls that may overlap. *)
ReadHeaders == {H_json, H_form}
ReadBodies  == {B_12, B_pair}

NextRead ==
    \/ \E h \in ReadHeaders, b \in ReadBodies : Arrive(1, R_Post, U_users, h, b, FALSE)
    \/ Arrive(2, R_GET, U_query, HeadersOf(Absent, Absent), B_empty, FALSE)
    \/ \E c \in CallIds : getSearch(c)
    \/ readBodyAsText(1, MaxReaders)
    \/ readBodyAsJSON(1, MaxReaders)
    \/ \E k \in 1..MaxReaders : ReadChunk(1, k)
    \/ \E k \in 1..MaxReaders : ReadEnd(1, k)
    \/ \E k \in 1..MaxReaders : Decode(1, k)

SpecRead == Init /\ [][NextRead]_vars

(* bodyJSON in a handler chain. *)
BodyChains  == {<<H_bodyJSON>>, <<H_bodyJSON, 1>>, <<1, H_bodyJSON>>}
\* The requests sent: headers, body, and whether reading the body fails.
BodyRequests ==
    {<<H_none, B_12, FALSE>>, <<H_text, B_12, FALSE>>,
     <<H_json, B_12, FALSE>>, <<H_json, B_12, TRUE>>, <<H_json, B_object, FALSE>>,
     <<H_json, B_pair, FALSE>>, <<H_json, B_empty, FALSE>>,
     <<H_form, B_pair, FALSE>>, <<H_form, B_amp, FALSE>>, <<H_form, B_badpct, FALSE>>}

NextBody ==
    \/ \E h \in BodyChains : routes = <<>> /\ Building /\ POST(P_users, h)
    \/ \E in \in BodyRequests :
          routes # <<>> /\ Arrive(1, R_Post, U_users, in[1], in[2], in[3])
    \/ \E calls \in BOOLEAN : Serve(1, calls, "return")
    \/ \E calls \in BOOLEAN : ServeResume(1, calls, "return")
    \/ readBodyAsText(1, MaxTasks)
    \/ readBodyAsJSON(1, MaxTasks)
    \/ \E k \in 1..(MaxTasks + 1) : ReadChunk(1, k)
    \/ \E k \in 1..(MaxTasks + 1) : ReadEnd(1, k)
    \/ \E k \in 1..(MaxTasks + 1) : ReadFail(1, k)
    \/ \E k \in 1..(MaxTasks + 1) : Decode(1, k)
    \/ \E k \in 1..(MaxTasks + 1) : BodyJSONStore(1, k)
    \/ \E k \in 1..(MaxTasks + 1) : BodyJSONCatch(1, k)

SpecBody == Init /\ [][NextBody]_vars

(* Two invocations of process on the table built at startup. *)
ConcurrentUrls == {U_users, U_users_a}

NextConcurrent ==
    \/ \E h \in Chains : routes = <<>> /\ Building /\ GET(P_users_id, h)
    \/ \E c \in CallIds, u \in ConcurrentUrls, calls \in BOOLEAN, end \in SyncEnds :
          routes # <<>> /\ call[c].pc = "idle" /\ process(c, R_GET, u, calls, end)
    \/ \E c \in CallIds, calls \in BOOLEAN, end \in SyncEnds : ProcessResume(c, calls, end)
    \/ \E c \in CallIds, i \in 1..MaxHandlers, calls \in BOOLEAN, end \in AsyncEnds :
          HandlerResume(c, i, calls, end)
    \/ \E c \in CallIds, i \in 1..MaxHandlers : LateNext(c, i)

SpecConcurrent == Init /\ [][NextConcurrent]_vars

(* ------------------------------------------------------------------ *)
(* Vocabulary of the properties.                                       *)
(* ------------------------------------------------------------------ *)

\* The three kinds of segment, read off a part { name, param }.
IsWildcard(part) == part.name = STAR
IsNamed(part)    == part.param /\ part.name # STAR
IsLiteral(part)  == ~part.param

\* Two method texts equal up to the case of their letters.
EqIgnoreCase(a, b) ==
    /\ Len(a) = Len(b)
    /\ \A i \in 1..Len(a) :
          \/ a[i] = b[i]
          \/ \E k \in 1..Len(LowerLetters) :
                {a[i], b[i]} = {LowerLetters[k], UpperLetters[k]}

\* The request segments of each request target used as an input.
SegmentsOf(url) ==
    CASE url = U_root         -> <<>>
      [] url = U_users        -> <<W_users>>
      [] url = U_users_a      -> <<W_users, W_a>>
      [] url = U_users_active -> <<W_users, W_active>>
      [] url = U_files        -> <<W_files>>
      [] url = U_files_a      -> <<W_files, W_a>>
      [] url = U_files_abc    -> <<W_files, W_a, W_b, W_c>>
      [] url = U_files_a_slash -> <<W_files, W_a>>
      [] url = U_users_a_b    -> <<W_users, W_a, W_b>>
      [] url = U_a_b_c        -> <<W_a, W_b, W_c>>
      [] url = U_a_c_b        -> <<W_a, W_c, W_b>>

\* The routes of the table that match a request.
Matching(method, url) ==
    {i \in 1..Len(routes) : matches(routes[i], method, PathParts(url)).matches}

St == call[1]

(* ------------------------------------------------------------------ *)
(* Registration: C1, C2, C3                                            *)
(* ------------------------------------------------------------------ *)

\* C1: after any sequence of register calls the table is ambiguity-free:
\* no request (method, path) is matched by more than one route.
C1_AmbiguityFree ==
    \A m \in MatchMethods, u \in MatchUrls : Cardinality(Matching(m, u)) <= 1

\* C2: a register call that throws leaves the table as it was; one that
\* returns appends exactly one route at the end and changes no other route.
C2_RegisterAtomic ==
    [][/\ thrown'.kind # "none" => routes' = routes
       /\ thrown'.kind = "none" =>
             /\ Len(routes') = Len(routes) + 1
             /\ SubSeq(routes', 1, Len(routes)) = routes
             /\ routes'[Len(routes')].pattern \in RoutePatterns]_vars

C2_Witness ==
    /\ thrown.kind = "conflict"
    /\ Len(routes) = 1

\* The conflict rule as the claim states it: walking both segment lists
\* from the first position, position k is reached without an escape (a
\* position where both sides are Literal with different text), and at k
\* either side is a Wildcard or both lists have ended together.
SegmentsConflict(a, b) ==
    \E k \in 1..(Max(Len(a), Len(b)) + 1) :
        /\ \A j \in 1..(k - 1) :
              /\ j <= Len(a) /\ j <= Len(b)
              /\ ~(IsLiteral(a[j]) /\ IsLiteral(b[j]) /\ a[j].name # b[j].name)
        /\ \/ k <= Len(a) /\ k <= Len(b) /\ (IsWildcard(a[k]) \/ IsWildcard(b[k]))
           \/ k = Len(a) + 1 /\ k = Len(b) + 1

RegistrationInputs ==
    ({M_GET} \X RoutePatterns)
        \cup ({M_POST} \X PostPatterns)
        \cup ({M_PATCH, M_DELETE, M_OPTIONS} \X SharedPatterns)

\* C3: registering a well-formed pattern fails with a conflict error iff
\* some registered route has the same method and conflicting segments;
\* /users/active after /users/:id under one method fails, and a pattern
\* never conflicts with routes of other methods only.
C3_ConflictIff ==
    /\ \A in \in RegistrationInputs :
          LET made == RouterItem(in[1], in[2], <<1>>)
              res  == AddResult(routes, in[1], in[2], <<1>>)
          IN  ~made.thrown =>
                 /\ res.thrown.kind = "conflict"
                       <=> \E i \in 1..Len(routes) :
                              /\ routes[i].method = in[1]
                              /\ SegmentsConflict(made.item.parts, routes[i].parts)
                 /\ (\A i \in 1..Len(routes) : routes[i].method # in[1])
                       => res.thrown.kind = "none"
    /\ (\E i \in 1..Len(routes) :
           routes[i].method = M_GET /\ routes[i].pattern = P_users_id)
          => AddResult(routes, M_GET, P_users_active, <<1>>).thrown.kind = "conflict"
    /\ thrown.kind = "conflict" =>
          \E i \in 1..Len(routes) :
             /\ routes[i].pattern = thrown.with
             /\ SegmentsConflict(RouterItem(M_GET, thrown.pattern, <<1>>).item.parts,
                                 routes[i].parts)
    /\ thrown.kind = "none" /\ routes # <<>> =>
          \A i \in 1..(Len(routes) - 1) :
             routes[i].method = routes[Len(routes)].method
                => ~SegmentsConflict(routes[Len(routes)].parts, routes[i].parts)

C3_Witness ==
    /\ thrown.kind = "conflict"
    /\ thrown.pattern = P_users_active
    /\ thrown.with = P_users_id
    /\ \E i \in 1..Len(routes) : routes[i].method = M_POST /\ routes[i].pattern = P_users_id

(* ------------------------------------------------------------------ *)
(* Matching: C4, C10 (one route, one request processed against it)     *)
(* ------------------------------------------------------------------ *)

\* The request of call 1 has been matched against the only route.
Probed == Len(routes) = 1 /\ St.pc # "idle"

ReqSegments == SegmentsOf(St.url)

\* The last segment of the route is a Wildcard and no other one is.
WildcardLast(route) ==
    /\ Len(route.parts) >= 1
    /\ \A j \in 1..Len(route.parts) : IsWildcard(route.parts[j]) <=> j = Len(route.parts)

\* The Literal segments before position n equal the request's.
LeadingMatch(route, segs, n) ==
    \A j \in 1..(n - 1) :
        j <= Len(segs) /\ (IsLiteral(route.parts[j]) => route.parts[j].name = segs[j])

ABC == W_a \o SL \o W_b \o SL \o W_c

C10_ExactLength ==
    Probed /\ (\A j \in 1..Len(routes[1].parts) : ~IsWildcard(routes[1].parts[j])) =>
       LET route == routes[1]
           n     == Len(route.parts)
           segs  == ReqSegments
           res   == matches(route, St.method, segs)
       IN  /\ St.route = 1 <=>
                /\ EqIgnoreCase(St.method, route.method)
                /\ Len(segs) = n
                /\ LeadingMatch(route, segs, n + 1)
           /\ res.matches <=> St.route = 1
           /\ St.route = 1 =>
                /\ DOMAIN St.context.params =
                      {route.parts[j].name : j \in {k \in 1..n : IsNamed(route.parts[k])}}
                /\ \A j \in 1..n :
                      IsNamed(route.parts[j]) => St.context.params[route.parts[j].name] = segs[j]
           /\ St.route = 0 => res.params = NoParams /\ St.context.params = NoParams
           /\ route.pattern = P_files_name /\ EqIgnoreCase(St.method, M_GET) =>
                /\ St.url = U_files_a   => St.route = 1
                /\ St.url = U_files_abc => St.route = 0

(* ------------------------------------------------------------------ *)
(* Dispatch: C5 .. C9 (call 1 against the table built at startup)      *)
(* ------------------------------------------------------------------ *)

\* The handler chain of the route call 1 was dispatched to.
Chain == routes[St.route].handlers

Invoked(i) == Len(St.log) >= i

Ended == St.pc \in {"returned", "rejected"}

SomeRouteMatches == Matching(St.method, St.url) # {}

\* Handlers were invoked in chain order, each with the context of the call.
InChainOrder ==
    /\ Len(St.log) <= Len(Chain)
    /\ \A j \in 1..Len(St.log) :
          /\ St.log[j].handler = Chain[j]
          /\ St.log[j].context = St.context.id
          /\ St.log[j].context = St.log[1].context

\* C5 as amended: handler i+1 is invoked iff handler i invoked its
\* continuation before its call completed AND that call did not fail; a
\* handler that never invokes its continuation has no successor invoked;
\* all invoked handlers of the dispatch receive the same context instance.
C5_ContinuationUnlessFailed ==
    St.route # 0 =>
       /\ \A i \in 1..Len(St.log) :
             i < Len(Chain) =>
                (Invoked(i + 1) <=> (St.signalled[i] /\ St.completed[i] = "ok"))
       /\ \A i \in 1..Len(St.log) : ~St.next[i] => ~Invoked(i + 1)
       /\ InChainOrder

C5_Witness ==
    /\ St.pc = "returned"
    /\ Len(St.log) = 2
    /\ St.signalled = <<TRUE, FALSE>>
    /\ St.log[1].context = St.log[2].context

\* C5: handler i+1 is invoked iff handler i invoked its continuation before
\* its call completed (however that call completed).
C5_ContinuationIff ==
    St.route # 0 =>
       /\ \A i \in 1..Len(St.log) :
             i < Len(Chain) =>
                (Invoked(i + 1) <=> (St.signalled[i] /\ St.completed[i] # "pending"))
       /\ \A i \in 1..Len(St.log) : ~St.next[i] => ~Invoked(i + 1)
       /\ InChainOrder

\* C6 as amended: process returns false and invokes no handler when no
\* route matches; when some route matches it returns true however the
\* chain stopped or completed, UNLESS a handler failed, and then it
\* returns nothing: the failure leaves process.
C6_HandledUnlessFailed ==
    St.pc # "idle" =>
       /\ ~SomeRouteMatches => St.pc = "returned" /\ St.result = FALSE /\ St.log = <<>>
       /\ SomeRouteMatches /\ St.pc = "returned" => St.result = TRUE /\ St.log # <<>>
       /\ SomeRouteMatches /\ Ended =>
             (St.pc = "returned" <=> \A i \in 1..Len(St.completed) : St.completed[i] = "ok")
       /\ St.pc = "rejected" => St.result = "none"

C6_Witness ==
    /\ St.pc = "returned"
    /\ St.result = TRUE
    /\ Len(St.log) = 1
    /\ Len(Chain) = 2
    /\ ~St.next[1]

\* C6: process returns false and invokes no handler when no route matches,
\* and returns true whenever some route matches, however the chain ended.
C6_HandledAlways ==
    Ended =>
       /\ ~SomeRouteMatches => St.pc = "returned" /\ St.result = FALSE /\ St.log = <<>>
       /\ SomeRouteMatches => St.pc = "returned" /\ St.result = TRUE

\* C7: process dispatches only to the first route, in registration order,
\* that matches: every handler invoked in the call belongs to that route,
\* also when its chain stops at its first handler.
C7_FirstMatchOnly ==
    St.pc # "idle" =>
       /\ ~SomeRouteMatches => St.route = 0 /\ St.log = <<>>
       /\ SomeRouteMatches =>
             /\ St.route \in Matching(St.method, St.url)
             /\ \A i \in Matching(St.method, St.url) : St.route <= i
       /\ \A j \in 1..Len(St.log) : St.log[j].route = St.route

C7_Witness ==
    /\ St.pc = "returned"
    /\ Cardinality(Matching(St.method, St.url)) = 2
    /\ St.route = 1
    /\ Len(St.log) = 1
    /\ ~St.next[1]

\* C8: handlers run in chain order, one at a time, never overlapping; the
\* decision to go on after handler i is taken only once its asynchronous
\* work has settled, so a handler that signals continuation after
\* suspending still has its successor run.
C8_SettledBeforeDecision ==
    St.route # 0 =>
       /\ ~St.overlap
       /\ InChainOrder
       /\ \A i \in 1..Len(St.completed) :
             St.completed[i] # "pending" => St.promise[i] # "pending"
       /\ \A i \in 1..Len(St.log) :
             (i < Len(Chain) /\ Ended /\ St.promise[i] = "fulfilled" /\ St.settledSignal[i])
                => Invoked(i + 1)

\* C9: a handler failure is not caught: process ends rejected without a
\* return value, no later handler is invoked even if the failing handler
\* had invoked its continuation, and no handler is invoked again.
C9_FailurePropagates ==
    St.route # 0 =>
       /\ \A i \in 1..Len(St.promise) :
             St.promise[i] \in {"rejected", "threw"} =>
                /\ ~Invoked(i + 1)
                /\ St.pc \in {"await", "rejected"}
                /\ St.pc = "rejected" => St.completed[i] = "failed"
       /\ St.pc = "rejected" =>
             /\ St.promise[St.pos] \in {"rejected", "threw"}
             /\ St.result = "none"
       /\ \A j, k \in 1..Len(St.log) : j # k => St.log[j].handler # St.log[k].handler

C9_Witness ==
    /\ St.pc = "rejected"
    /\ St.promise[St.pos] = "rejected"
    /\ St.next[St.pos]
    /\ St.pos < Len(Chain)

(* ------------------------------------------------------------------ *)
(* Request helpers: C11, C12, C13                                      *)
(* ------------------------------------------------------------------ *)

\* The mapping {a: "1", b: "2"}.
A1B2 == (W_a :> JsString(<<"1">>)) @@ (W_b :> JsString(<<"2">>))

\* The mapping getSearch has cached for ?a=1&b=2 is {a: "1", b: "2"}.
QueryPairsParsed ==
    \A c \in CallIds :
       "__search" \in req[c].has /\ req[c].url = U_query => req[c].__search = A1B2

\* C11: query-string parsing of ?a=1&b=2 yields {a: "1", b: "2"}, and of an
\* empty query string yields the empty mapping, with no key at all.
C11_QueryParse ==
    /\ QueryPairsParsed
    /\ \A c \in CallIds :
          "__search" \in req[c].has /\ req[c].url \in {U_users, U_bare_query}
             => DOMAIN req[c].__search = {}

Rq == req[1]

\* The calls of the bodyJSON handler made for request 1.
BodyJSONTasks == {k \in 1..Len(Rq.tasks) : Rq.tasks[k].fn = "bodyJSON"}

\* What a request sent with these headers and this body is to give when
\* the body is read once and whole: the status responded (0 for none) and
\* the value stored.
ExpectedOf(headers, body) ==
    CASE headers = H_json /\ body = B_12     -> [status |-> 0, value |-> JsNumber(12)]
      [] headers = H_json /\ body = B_object -> [status |-> 0, value |-> JsObject(EmptyObject)]
      [] headers = H_json /\ body \in {B_pair, B_empty}
                                             -> [status |-> 400, value |-> JsUndefined]
      [] headers = H_form /\ body = B_pair
            -> [status |-> 0, value |-> JsObject(W_a :> JsString(<<"1">>))]
      [] headers = H_form /\ body = B_amp
            -> [status |-> 0, value |-> JsObject((W_a :> JsUndefined) @@ (W_b :> JsUndefined))]
      [] headers = H_form /\ body = B_badpct -> [status |-> 500, value |-> JsUndefined]
      [] headers \in {H_none, H_text}        -> [status |-> 415, value |-> JsUndefined]

\* C12: bodyJSON(key) signals continuation iff body decoding succeeded, and
\* then the decoded value is stored under key in props before the next
\* handler runs; on an unsupported media type it responds 415, on a JSON
\* parse failure 400, on any other failure 500, and in these three cases it
\* never signals continuation and the failure never reaches process.
C12_BodyJSON ==
    /\ \A k \in BodyJSONTasks :
          LET t       == Rq.tasks[k]
              i       == t.handler
              done    == t.pc = "done"
              decoded == done /\ t.error = "none"
              failed  == done /\ t.error # "none"
          IN  /\ Invoked(i) /\ St.log[i].handler = H_bodyJSON
              /\ St.next[i] <=> decoded
              /\ St.signalled[i] <=> decoded
              /\ St.promise[i] = (IF done THEN "fulfilled" ELSE "pending")
              /\ Invoked(i + 1) => decoded
              /\ K_body \in DOMAIN props[1] <=> decoded
              /\ decoded => props[1][K_body] = t.value /\ Rq.responses = <<>>
              /\ ~done => Rq.responses = <<>>
              /\ failed =>
                    /\ Len(Rq.responses) = 1
                    /\ Rq.responses[1] = 415 <=> t.error = "UnsupportedMediaTypeError"
                    /\ Rq.responses[1] = 400 <=> t.error = "JSONParseError"
                    /\ Rq.responses[1] = 500
                          <=> t.error \notin {"UnsupportedMediaTypeError", "JSONParseError"}
                    /\ Ended => St.pc = "returned" /\ St.result = TRUE /\ St.pos = i
              /\ done /\ Rq.streamFails => Rq.responses = <<500>>
              /\ done /\ ~Rq.streamFails /\ Rq.reads = 1 =>
                    LET e == ExpectedOf(Rq.headers, Rq.body) IN
                    IF e.status = 0
                    THEN decoded /\ props[1][K_body] = e.value
                    ELSE Rq.responses = <<e.status>>
    /\ St.pc # "rejected"

C12_Witness ==
    /\ St.pc = "returned"
    /\ Chain = <<H_bodyJSON, 1>>
    /\ Len(St.log) = 2
    /\ Rq.headers = H_json
    /\ props[1] = (K_body :> JsNumber(12))

\* Every name of a derived value was computed at most once for request c,
\* and every call of its accessor returned one and the same value.
OncePerRequest(c) ==
    /\ \A n \in DOMAIN req[c].computed : req[c].computed[n] <= 1
    /\ \A n \in DOMAIN req[c].seen : Cardinality(req[c].seen[n]) <= 1

\* What is cached on request 2 comes from request 2 alone, whatever was
\* done with request 1.
OwnCacheOnly ==
    /\ req[2].has \subseteq {"__url", "__search"}
    /\ "__search" \in req[2].has =>
          req[2].__search = paramsToObject(ReplaceFirst(Search(req[2].url), "?"), "&")
    /\ req[2].reads = 0 /\ req[2].tasks = <<>>

\* C13: for one request each derived value is computed at most once however
\* often and in whatever interleaving its accessor is called; the body is
\* read from the stream at most once even when readBodyAsText or
\* readBodyAsJSON is called again before an earlier call has resolved, and
\* every later call returns the cached value; nothing cached for one
\* request is visible to another.
C13_ComputedOnce ==
    /\ \A c \in CallIds : req[c].reads <= 1
    /\ \A c \in CallIds : OncePerRequest(c)
    /\ OwnCacheOnly

(* ------------------------------------------------------------------ *)
(* Concurrent invocations: C14                                         *)
(* ------------------------------------------------------------------ *)

\* Invocation c is where it would be if it ran alone: dispatched to the
\* first matching route of the table, with its own context, having invoked
\* the handlers its own continuation flags and handler outcomes call for,
\* and returning what its own route and outcomes give.
AsAlone(c) ==
    LET st == call[c]
        r  == Scan(routes, st.method, PathParts(st.url), 1)
    IN  st.pc # "idle" =>
           /\ st.route = r
           /\ r = 0 => st.pc = "returned" /\ st.result = FALSE /\ st.log = <<>>
           /\ r # 0 =>
                 LET chain == routes[r].handlers IN
                 /\ st.context.id = <<c, 1>>
                 /\ Len(st.log) \in 1..Len(chain)
                 /\ \A j \in 1..Len(st.log) :
                       /\ st.log[j].handler = chain[j]
                       /\ st.log[j].context = st.context.id
                 /\ \A i \in 1..Len(st.log) :
                       i < Len(chain) =>
                          (Len(st.log) >= i + 1
                              <=> (st.signalled[i] /\ st.completed[i] = "ok"))
                 /\ st.pc = "returned" =>
                       /\ st.result = TRUE
                       /\ \A i \in 1..Len(st.log) : st.completed[i] = "ok"
                       /\ Len(st.log) < Len(chain) => ~st.signalled[Len(st.log)]
                 /\ st.pc = "rejected" => st.completed[st.pos] = "failed"

\* C14: once registration is finished, interleaved process invocations are
\* independent: a step of one leaves the route table and every other
\* invocation as they were, each has its own context and continuation
\* flags, and in every interleaving each invokes the handlers and returns
\* the value it would alone.
C14_Independent ==
    /\ [](\A c \in CallIds : AsAlone(c))
    /\ [](\A c, d \in CallIds :
             c # d /\ call[c].route # 0 /\ call[d].route # 0
                => call[c].context.id # call[d].context.id)
    /\ [][\A c \in CallIds :
             call'[c] # call[c] =>
                /\ routes' = routes
                /\ \A d \in CallIds \ {c} : call'[d] = call[d]]_vars

C14_Witness ==
    /\ call[1].pc = "await" /\ call[2].pc = "await"
    /\ call[1].route = call[2].route
    /\ call[1].next = <<TRUE>> /\ call[2].next = <<FALSE>>
    /\ call[1].promise = <<"pending">> /\ call[2].promise = <<"fulfilled">>

(* ------------------------------------------------------------------ *)
(* Pattern compilation and the wildcard: C15, C16, C17                 *)
(* ------------------------------------------------------------------ *)

\* The index of the Wildcard segment of a route that has one.
WildcardAt(route) == CHOOSE w \in 1..Len(route.parts) : IsWildcard(route.parts[w])

\* C15: at a Wildcard segment matches binds * to the join of the request
\* segments from that index on and ends the walk: no pattern segment after
\* the wildcard is compared or bound, so /a/*/b matches every request with
\* at least three segments whose first is a, whatever the later ones are.
C15_WildcardEndsWalk ==
    Probed /\ (\E w \in 1..Len(routes[1].parts) : IsWildcard(routes[1].parts[w])) =>
       LET route == routes[1]
           n     == Len(route.parts)
           w     == WildcardAt(route)
           segs  == ReqSegments
       IN  /\ St.route = 1 <=>
                /\ EqIgnoreCase(St.method, route.method)
                /\ Len(segs) >= n
                /\ LeadingMatch(route, segs, w)
           /\ St.route = 1 =>
                /\ St.context.params[STAR] = Join(SubSeq(segs, w, Len(segs)), "/")
                /\ \A j \in (w + 1)..n : route.parts[j].name \notin DOMAIN St.context.params
           /\ (/\ route.pattern = P_a_star_b
               /\ EqIgnoreCase(St.method, M_GET)
               /\ Len(segs) >= 3
               /\ segs[1] = W_a) => St.route = 1


HasWildcard(route) == \E j \in 1..Len(route.parts) : IsWildcard(route.parts[j])

\* C16: for every compiled pattern the variadic flag is true iff the
\* compiled segment list contains a Wildcard segment; a pattern whose
\* segments are all Literal or Named is never treated as variadic by
\* matches (it matches requests of its own length only).
C16_VariadicIffWildcard ==
    \A i \in 1..Len(routes) :
       /\ routes[i].variadic <=> HasWildcard(routes[i])
       /\ ~HasWildcard(routes[i]) =>
             \A m \in MatchMethods, u \in MatchUrls :
                matches(routes[i], m, PathParts(u)).matches
                   => Len(PathParts(u)) = Len(routes[i].parts)

\* The patterns the claim says are rejected: empty, more than one '*', a
\* piece with ':' anywhere but as its single first character, or a piece
\* containing '*' that is not the one-character piece "*".
Malformed(pattern) ==
    \/ Len(pattern) = 0
    \/ Cardinality({i \in 1..Len(pattern) : pattern[i] = "*"}) > 1
    \/ \E k \in 1..Len(Split(pattern, "/")) :
          LET piece == Split(pattern, "/")[k] IN
          \/ /\ Includes(piece, ":")
             /\ ~(piece[1] = ":" /\ Cardinality({i \in 1..Len(piece) : piece[i] = ":"}) = 1)
          \/ Includes(piece, "*") /\ piece # STAR

\* C17: compilation rejects, before anything is added to the table, every
\* pattern that is empty, has more than one '*', has a piece with ':' other
\* than as its single first character, or has a piece containing '*' that
\* is not exactly "*"; every other pattern compiles, its empty pieces
\* discarded.
C17_CompileRejects ==
    /\ \A i \in 1..Len(routes) :
          /\ ~Malformed(routes[i].pattern)
          /\ Len(routes[i].parts) =
                Cardinality({k \in 1..Len(Split(routes[i].pattern, "/")) :
                                Split(routes[i].pattern, "/")[k] # <<>>})
    /\ thrown.kind = "malformed" => Malformed(thrown.pattern)
    /\ thrown.kind = "conflict" => ~Malformed(thrown.pattern)


(* ------------------------------------------------------------------ *)
(* Termination: C18                                                    *)
(* ------------------------------------------------------------------ *)

\* process waits for a handler call that has not settled.
Unsettled == St.pc = "await" /\ St.promise[St.pos] = "pending"

\* Each handler of the matched route is invoked at most once, in chain
\* order, and never more handlers than the chain has.
AtMostOnce ==
    St.route # 0 =>
       /\ Len(St.log) <= Len(Chain)
       /\ \A j \in 1..Len(St.log) : St.log[j].handler = Chain[j]
       /\ \A j, k \in 1..Len(St.log) : j # k => St.log[j].handler # St.log[k].handler

\* Every process call whose handlers all settle completes.
Completes == ([]<>~Unsettled) => [](St.pc = "await" => <>Ended)

\* C18 as amended: every process call whose invoked handlers all settle
\* eventually completes, having invoked each handler of the matched route
\* at most once and never more than the chain has; when every handler
\* invokes its continuation before its call completes AND NONE FAILS, all
\* handlers of the chain are invoked once in order and process returns true.
C18_TerminatesUnlessFailed ==
    /\ Completes
    /\ []AtMostOnce
    /\ []((/\ St.route # 0
           /\ Ended
           /\ \A i \in 1..Len(St.log) : St.signalled[i] /\ St.completed[i] = "ok")
             => /\ Len(St.log) = Len(Chain)
                /\ St.pc = "returned"
                /\ St.result = TRUE)

C18_Witness ==
    /\ St.pc = "returned"
    /\ St.result = TRUE
    /\ Len(Chain) = 2
    /\ Len(St.log) = 2
    /\ St.signalled = <<TRUE, TRUE>>
    /\ St.settledSignal[1]

\* C18: every process call whose invoked handlers all settle eventually
\* completes, having invoked each handler at most once; when every handler
\* invokes its continuation, all handlers of the chain are invoked once in
\* order and process returns true.
C18_Terminates ==
    /\ Completes
    /\ []AtMostOnce
    /\ []((/\ St.route # 0
           /\ Ended
           /\ \A i \in 1..Len(St.log) : St.signalled[i])
             => /\ Len(St.log) = Len(Chain)
                /\ St.pc = "returned"
                /\ St.result = TRUE)


(* ------------------------------------------------------------------ *)
(* The conflict relation: C19                                          *)
(* ------------------------------------------------------------------ *)

\* The items the registration inputs compile to.
CompiledInputs ==
    {RouterItem(in[1], in[2], <<1>>).item :
        in \in {x \in RegistrationInputs : ~RouterItem(x[1], x[2], <<1>>).thrown}}

\* Whether the registrations seq[i..], made in this order on the table,
\* all return.
RECURSIVE RegistersFrom(_, _, _)
RegistersFrom(table, seq, i) ==
    IF i > Len(seq) THEN TRUE
    ELSE LET r == AddResult(table, seq[i][1], seq[i][2], <<1>>) IN
         r.thrown.kind = "none" /\ RegistersFrom(r.routes, seq, i + 1)

Orders(n) == {f \in [1..n -> 1..n] : \A j, k \in 1..n : j # k => f[j] # f[k]}

\* The registrations of seq all return in every order, or in none.
OrderIndependent(seq) ==
    LET inOrder == RegistersFrom(<<>>, seq, 1) IN
    \A f \in Orders(Len(seq)) :
       RegistersFrom(<<>>, [j \in 1..Len(seq) |-> seq[f[j]]], 1) <=> inOrder

\* The registrations that built the table.
Registered == [i \in 1..Len(routes) |-> <<routes[i].method, routes[i].pattern>>]

\* C19: conflicts is symmetric, so after any sequence of register calls
\* every two distinct routes of the table are mutually non-conflicting, and
\* whether a set of patterns can all be registered does not depend on the
\* order in which they are registered.
C19_ConflictSymmetric ==
    /\ \A a, b \in CompiledInputs : conflicts(a, b) <=> conflicts(b, a)
    /\ \A i, j \in 1..Len(routes) : i # j => ~conflicts(routes[i], routes[j])
    /\ OrderIndependent(Registered)
    /\ Len(routes) < MaxRoutes =>
          \A in \in RegistrationInputs : OrderIndependent(Append(Registered, in))

C19_Witness ==
    /\ thrown.kind = "conflict"
    /\ thrown.pattern = P_users_id
    /\ thrown.with = P_star
    /\ Len(routes) = 1
    /\ routes[1].pattern = P_star

====
